---- MODULE Spec2Model ----
(***************************************************************************)
(* Model of key_interactions_finder/post_proccessing.py:                   *)
(*   - PostProcessor._dict_to_df_feat_importances  (feature-name parser)   *)
(*   - PostProcessor._per_res_importance           (per-residue aggregator)*)
(*   - UnsupervisedPostProcessor._get_pca_importances / _scale_eigenvalues *)
(*   - the Supervised, Unsupervised and Stat* post-processor classes       *)
(* and of prep_res_res_connections of the network analysis tutorial.       *)
(*                                                                         *)
(* Numbers.  Scores and loadings are exact integers.  A quotient a / b of  *)
(* the code is kept as the pair <<a, b>>; b = 0 is the NaN numpy produces  *)
(* for 0.0 / 0.0.  np.around(x, 5) is modelled on the exact quotient and   *)
(* yields an integer count of 10^-5 units (1.0 is 100000).                 *)
(* Explained-variance ratios and the cutoff are integers in units of       *)
(* 1 / VarTotal.                                                           *)
(***************************************************************************)
EXTENDS Integers, Sequences, FiniteSets, TLC

VARIABLES
    pc,                 \* position of the call being modelled
    feat_importances,   \* dict feature name -> score, as a sequence of <<name, score>>
    per_res_import,     \* dataframe rows [Res1, Res2, Score]
    max_res,            \* local of _per_res_importance
    res_ids,            \* local of _per_res_importance
    tot_scores,         \* local of _per_res_importance
    spheres,            \* returned dict residue -> score, as a sequence of <<key, value>>
    variances,          \* explained_variance_ratio_ of the PCA model
    components,         \* components_ of the PCA model (one loading row per PC)
    cutoff,             \* variance_explained_cutoff
    idx_position,       \* local of _get_pca_importances
    pca_importances,    \* returned dict feature name -> importance
    proc,               \* class of the processor object
    stat_model,         \* the stat_model attribute (its score tables)
    per_residue,        \* the per_residue_* attributes of a statistical processor
    files,              \* names of the files written so far
    outcome,            \* how the last call ended and what it returned
    ncalls,             \* number of calls made on the object
    ml_models,          \* supervised_model.ml_models: name -> feature_importances_
    best_models,        \* SupervisedPostProcessor.best_models
    all_feature_importances,   \* SupervisedPostProcessor.all_feature_importances
    all_per_residue_scores,    \* SupervisedPostProcessor.all_per_residue_scores
    all_paths,          \* parameter of prep_res_res_connections
    interacting_pairs   \* dict built by prep_res_res_connections

vars == <<pc, feat_importances, per_res_import, max_res, res_ids, tot_scores,
          spheres, variances, components, cutoff, idx_position, pca_importances,
          proc, stat_model, per_residue, files, outcome, ncalls,
          ml_models, best_models, all_feature_importances, all_per_residue_scores,
          all_paths, interacting_pairs>>

aggVars == <<feat_importances, per_res_import, max_res, res_ids, tot_scores, spheres>>
pcaVars == <<variances, components, cutoff, idx_position, pca_importances>>
statVars == <<proc, stat_model, per_residue, files, outcome, ncalls>>
supVars == <<ml_models, best_models, all_feature_importances, all_per_residue_scores>>
pairVars == <<all_paths, interacting_pairs>>

----------------------------------------------------------------------------
(* Bounds of the model *)

MaxRes == 3       \* residue ids of the generated feature names are 1..MaxRes
MaxFeats == 2     \* at most MaxFeats features in a FeatureImportance mapping
MaxScore == 1     \* scores are drawn from -MaxScore..MaxScore
MaxComps == 3     \* the PCA model has 1..MaxComps components
VarTotal == 4     \* explained-variance ratios are k / VarTotal
MaxCalls == 2     \* at most MaxCalls calls are made on a processor object
MaxGap == 2       \* a run of spaces in a feature name is at most MaxGap wide
MaxRanked == 3    \* a statistical model ranks at most MaxRanked features
MaxSupCalls == 4  \* at most MaxSupCalls calls are made on a supervised processor
MaxUnsupCalls == 3  \* the same for an unsupervised processor
MaxPaths == 2     \* all_paths holds at most MaxPaths paths
MaxPathLen == 2   \* a path holds at most MaxPathLen residues
PairDecimals == 4 \* round(v / (max_interactions*2), 4)

(* Program constants *)

Decimals == 5     \* np.around(values, 5)

----------------------------------------------------------------------------
(* Generic helpers *)

None == "None"

\* no statistical processor object exists
NoStat ==
    /\ proc = None
    /\ stat_model = None
    /\ per_residue = None
    /\ files = None
    /\ outcome = None
    /\ ncalls = None

\* no supervised processor object exists
NoSup ==
    /\ ml_models = None
    /\ best_models = None
    /\ all_feature_importances = None
    /\ all_per_residue_scores = None

\* no PCA model is being processed
NoPca ==
    /\ variances = None
    /\ components = None
    /\ cutoff = None
    /\ idx_position = None
    /\ pca_importances = None

\* prep_res_res_connections is not being run
NoPairs == all_paths = None /\ interacting_pairs = None

\* the rounded NaN; every rounded number of the model is >= 0
NaN == 0 - 1

RECURSIVE SumSeq(_)
SumSeq(s) == IF s = <<>> THEN 0 ELSE Head(s) + SumSeq(Tail(s))

RECURSIVE MaxSeq(_)
\* Python max() of a non-empty list
MaxSeq(s) == IF Len(s) = 1 THEN s[1]
             ELSE LET m == MaxSeq(Tail(s)) IN IF Head(s) >= m THEN Head(s) ELSE m

Abs(x) == IF x < 0 THEN -x ELSE x

RECURSIVE SumOver(_, _)
\* sum of f over a finite set of indices
SumOver(S, f) == IF S = {} THEN 0
                 ELSE LET k == CHOOSE x \in S : TRUE
                      IN f[k] + SumOver(S \ {k}, f)

MinOf(a, b) == IF a <= b THEN a ELSE b

RECURSIVE Pow10(_)
Pow10(n) == IF n = 0 THEN 1 ELSE 10 * Pow10(n - 1)

Prefix(s, n) == SubSeq(s, 1, MinOf(n, Len(s)))

----------------------------------------------------------------------------
(* Feature names: sequences of one-character strings *)

DigitChars == <<"0", "1", "2", "3", "4", "5", "6", "7", "8", "9">>

DigitSet == {DigitChars[d] : d \in 1..Len(DigitChars)}

IsDigit(c) == c \in DigitSet

DigitVal(c) == (CHOOSE d \in 1..Len(DigitChars) : DigitChars[d] = c) - 1

RECURSIVE IntToChars(_)
IntToChars(n) == IF n < 10 THEN <<DigitChars[n + 1]>>
                 ELSE Append(IntToChars(n \div 10), DigitChars[(n % 10) + 1])

Spaces(n) == [i \in 1..n |-> " "]

\* "A<r1>" + spaces + "B<r2>" + " H": the residue tokens carry a name, the
\* interaction type follows, and the gap is one or two spaces wide.
MkName(r1, r2) ==
    <<"A">> \o IntToChars(r1) \o Spaces(1 + ((r1 + r2) % 2))
            \o <<"B">> \o IntToChars(r2) \o <<" ", "H">>

----------------------------------------------------------------------------
(* PostProcessor._dict_to_df_feat_importances *)

RECURSIVE SplitAcc(_, _, _, _)
\* str.split(" +"): cut at every maximal run of spaces
SplitAcc(s, cur, inRun, acc) ==
    IF s = <<>> THEN Append(acc, cur)
    ELSE IF Head(s) = " "
         THEN IF inRun THEN SplitAcc(Tail(s), cur, TRUE, acc)
              ELSE SplitAcc(Tail(s), <<>>, TRUE, Append(acc, cur))
         ELSE SplitAcc(Tail(s), Append(cur, Head(s)), FALSE, acc)

RECURSIVE SplitEach(_, _, _)
SplitEach(s, cur, acc) ==
    IF s = <<>> THEN Append(acc, cur)
    ELSE IF Head(s) = " " THEN SplitEach(Tail(s), <<>>, Append(acc, cur))
    ELSE SplitEach(Tail(s), Append(cur, Head(s)), acc)

\* faulty variant: str.split(" "), a cut at every single space
SplitEverySpace(name) == SplitEach(name, <<>>, <<>>)

SplitSpaces(name) == SplitAcc(name, <<>>, FALSE, <<>>)

RECURSIVE DigitRun(_)
\* the leading digits of s
DigitRun(s) == IF s = <<>> \/ ~IsDigit(Head(s)) THEN <<>>
               ELSE <<Head(s)>> \o DigitRun(Tail(s))

\* faulty variant: only digits at the start of the token are found
LeadingDigitRun(s) == DigitRun(s)

RECURSIVE FirstDigitRun(_)
\* str.extract("(\d+)"): the first run of digits, <<>> when there is none
FirstDigitRun(s) == IF s = <<>> THEN <<>>
                    ELSE IF IsDigit(Head(s)) THEN DigitRun(s)
                    ELSE FirstDigitRun(Tail(s))

RECURSIVE CharsToInt(_, _)
CharsToInt(s, acc) == IF s = <<>> THEN acc
                      ELSE CharsToInt(Tail(s), 10 * acc + DigitVal(Head(s)))

\* the extracted cell of a token is NaN when the token holds no digit, and
\* so is the cell of a token the name does not have
HasRes(toks, col) == Len(toks) >= col /\ FirstDigitRun(toks[col]) # <<>>

\* the extracted cell cast to int
ResOf(toks, col) == CharsToInt(FirstDigitRun(toks[col]), 0)

\* faulty variant: an empty dict gives an empty dataframe
DictToDfFailsOnNamesOnly(fi) ==
    \E k \in 1..Len(fi) :
        LET toks == SplitSpaces(fi[k][1]) IN ~HasRes(toks, 1) \/ ~HasRes(toks, 2)

\* .astype(int) raises on NaN; an empty dict has no column 0
DictToDfFails(fi) ==
    \/ fi = <<>>
    \/ \E k \in 1..Len(fi) :
          LET toks == SplitSpaces(fi[k][1]) IN ~HasRes(toks, 1) \/ ~HasRes(toks, 2)

\* faulty variant: the score is taken as it is
DfRowSigned(item) ==
    LET toks == SplitSpaces(item[1]) IN
    [Res1 |-> ResOf(toks, 1), Res2 |-> ResOf(toks, 2), Score |-> item[2]]

\* one dataframe row: the two extracted ids and the absolute score
DfRow(item) ==
    LET toks == SplitSpaces(item[1]) IN
    [Res1 |-> ResOf(toks, 1), Res2 |-> ResOf(toks, 2), Score |-> Abs(item[2])]

RECURSIVE DictToDf(_)
\* the rows, in the order of the dict's items
DictToDf(fi) == IF fi = <<>> THEN <<>>
                ELSE <<DfRow(Head(fi))>> \o DictToDf(Tail(fi))

----------------------------------------------------------------------------
(* PostProcessor._per_res_importance *)

MaxRes_(rows) ==
    MaxSeq([k \in 1..Len(rows) |->
               IF rows[k].Res1 >= rows[k].Res2 THEN rows[k].Res1 ELSE rows[k].Res2])

\* per_res_import.loc[per_res_import[col] == i, "Score"].sum()
ColSum(rows, col, i) ==
    SumSeq([k \in 1..Len(rows) |-> IF rows[k][col] = i THEN rows[k].Score ELSE 0])

\* faulty variant: a row is counted once for a residue, whichever side it is on
TotScoreAtOnce(rows, i) ==
    SumSeq([k \in 1..Len(rows) |->
               IF rows[k].Res1 = i \/ rows[k].Res2 = i THEN rows[k].Score ELSE 0])

\* faulty variant: only the Res1-matched subset is summed
TotScoreAtRes1Only(rows, i) == ColSum(rows, "Res1", i)

TotScoreAt(rows, i) == ColSum(rows, "Res1", i) + ColSum(rows, "Res2", i)

\* faulty variant: res_ids.append(i)
ResIdsUnshifted(m) == [i \in 1..m |-> i]

\* first loop: for i in range(1, max_res + 1)
ResIds(m) == [i \in 1..m |-> i + 1]

RECURSIVE TotScores(_, _)
\* tot_scores after the first loop has run for i = 1..m
TotScores(rows, m) == IF m = 0 THEN <<>>
                      ELSE Append(TotScores(rows, m - 1), TotScoreAt(rows, m))

\* faulty variant: the second loop reads tot_scores[i - 1]
TotScoresScaledShifted(ts, m) ==
    LET max_ori_score == MaxSeq(ts) IN
    [i \in 1..(m - 1) |-> <<ts[i], max_ori_score>>]

\* faulty variant: the maximum is taken over the returned residues only
TotScoresScaledByReturnedMax(ts, m) ==
    [i \in 1..(m - 1) |-> <<ts[i + 1], MaxSeq(Tail(ts))>>]

\* second loop: for i in range(1, max_res): tot_scores[i] / max_ori_score
\* (Python index i is position i + 1 of the list)
TotScoresScaled(ts, m) ==
    LET max_ori_score == MaxSeq(ts) IN
    [i \in 1..(m - 1) |-> <<ts[i + 1], max_ori_score>>]

Zip(a, b) == [j \in 1..MinOf(Len(a), Len(b)) |-> <<a[j], b[j]>>]

\* key order of sorted(..., key=lambda x: x[1], reverse=True) on quotients
\* that share their denominator; comparisons with NaN are all false
\* faulty variant: an equal key also goes in front (not stable)
KeyGreaterOrEqual(x, y) == x[2][2] # 0 /\ x[2][1] >= y[2][1]

KeyGreater(x, y) == x[2][2] # 0 /\ x[2][1] > y[2][1]

RECURSIVE InsertDesc(_, _)
\* x goes behind every element that is not smaller than it (stable)
InsertDesc(sorted, x) ==
    IF sorted = <<>> THEN <<x>>
    ELSE IF KeyGreater(x, Head(sorted)) THEN <<x>> \o sorted
    ELSE <<Head(sorted)>> \o InsertDesc(Tail(sorted), x)

RECURSIVE SortAcc(_, _)
SortAcc(s, acc) == IF s = <<>> THEN acc
                   ELSE SortAcc(Tail(s), InsertDesc(acc, Head(s)))

SortedDesc(s) == SortAcc(s, <<>>)

Scale == Pow10(Decimals)

\* np.around(num / den, Decimals) in units of 10^-Decimals, half to even
Around(q) ==
    IF q[2] = 0 THEN NaN
    ELSE LET d == Abs(q[2])
             n == (IF q[2] < 0 THEN 0 - q[1] ELSE q[1]) * Scale
             f == n \div d
             r == n % d
         IN IF 2 * r > d THEN f + 1
            ELSE IF 2 * r < d THEN f
            ELSE IF f % 2 = 0 THEN f ELSE f + 1

Spheres(ids, ts, m) ==
    LET sorted == SortedDesc(Zip(ids, TotScoresScaled(ts, m)))
    IN [j \in 1..Len(sorted) |-> <<sorted[j][1], Around(sorted[j][2])>>]

\* the two calls every get_per_res_importance makes on a feature dict
AggregateToResidues(fi) ==
    LET rows == DictToDf(fi)
        m == MaxRes_(rows)
    IN Spheres(ResIds(m), TotScores(rows, m), m)

----------------------------------------------------------------------------
(* Inputs of the aggregation *)

AggNameList == [n \in 1..(MaxRes * MaxRes) |->
                   MkName(((n - 1) \div MaxRes) + 1, ((n - 1) % MaxRes) + 1)]

ScoreValues == (0 - MaxScore)..MaxScore

RECURSIVE SortedSeqOf(_)
\* the elements of a set of integers, ascending
SortedSeqOf(S) == IF S = {} THEN <<>>
                  ELSE LET x == CHOOSE y \in S : \A z \in S : y <= z
                       IN <<x>> \o SortedSeqOf(S \ {x})

\* the name sets of the dicts: at most MaxFeats distinct names
NameSubsets == {T \in SUBSET (1..Len(AggNameList)) : Cardinality(T) <= MaxFeats}

\* the dict with the names numbered idx, in that order, scored by sc
FeatDict(idx, sc) == [k \in 1..Len(idx) |-> <<AggNameList[idx[k]], sc[k]>>]

----------------------------------------------------------------------------
(* The aggregation as a state machine *)

InitAgg ==
    /\ pc = "start"
    /\ \E S \in NameSubsets : \E sc \in [1..Cardinality(S) -> ScoreValues] :
          feat_importances = FeatDict(SortedSeqOf(S), sc)
    /\ per_res_import = None
    /\ max_res = None
    /\ res_ids = None
    /\ tot_scores = None
    /\ spheres = None
    /\ variances = None
    /\ components = None
    /\ cutoff = None
    /\ idx_position = None
    /\ pca_importances = None
    /\ NoStat
    /\ NoSup
    /\ NoPairs

\* _dict_to_df_feat_importances(feat_importances)
DictToDfOk ==
    /\ pc = "start"
    /\ ~DictToDfFails(feat_importances)
    /\ per_res_import' = DictToDf(feat_importances)
    /\ pc' = "parsed"
    /\ UNCHANGED <<feat_importances, max_res, res_ids, tot_scores, spheres>>
    /\ UNCHANGED <<pcaVars, statVars, supVars>>
    /\ UNCHANGED pairVars

DictToDfRaise ==
    /\ pc = "start"
    /\ DictToDfFails(feat_importances)
    /\ pc' = "error"
    /\ UNCHANGED aggVars
    /\ UNCHANGED <<pcaVars, statVars, supVars>>
    /\ UNCHANGED pairVars

\* _per_res_importance(per_res_import)
PerResImportance ==
    /\ pc = "parsed"
    /\ LET m == MaxRes_(per_res_import)
           ids == ResIds(m)
           ts == TotScores(per_res_import, m)
       IN /\ max_res' = m
          /\ res_ids' = ids
          /\ tot_scores' = ts
          /\ spheres' = Spheres(ids, ts, m)
    /\ pc' = "done"
    /\ UNCHANGED <<feat_importances, per_res_import>>
    /\ UNCHANGED <<pcaVars, statVars, supVars>>
    /\ UNCHANGED pairVars

NextAgg == DictToDfOk \/ DictToDfRaise \/ PerResImportance

SpecAgg == InitAgg /\ [][NextAgg]_vars

----------------------------------------------------------------------------
(* Properties of the aggregation *)

Done == pc = "done"

RowIdx == 1..Len(per_res_import)

\* residue ids that occur in some parsed row
Observed == {per_res_import[k].Res1 : k \in RowIdx}
               \cup {per_res_import[k].Res2 : k \in RowIdx}

LargestObserved == CHOOSE m \in Observed : \A r \in Observed : r <= m

SphereIdx == 1..Len(spheres)

SphereKeys == {spheres[j][1] : j \in SphereIdx}

\* C1: for a non-empty input with a strictly positive score, the largest
\* value of the returned per-residue mapping is 1.0.
C1_MaxIsOne ==
    (Done /\ \E k \in RowIdx : per_res_import[k].Score > 0)
        => /\ \E j \in SphereIdx : spheres[j][2] = Scale
           /\ \A j \in SphereIdx : spheres[j][2] <= Scale

\* C2: the returned mapping has exactly one entry for every residue id that
\* occurs in some feature and no entry for any other residue id.
C2_KeysAreObserved ==
    Done => /\ SphereKeys = Observed
            /\ Cardinality(SphereKeys) = Len(spheres)

C4_KeyShifted ==
    Done => \A j \in SphereIdx :
                spheres[j][2] =
                    Around(<<tot_scores[spheres[j][1] - 1], MaxSeq(tot_scores)>>)

\* C4 amended: the value under key k is the rescaled total computed for
\* scanned position k itself; position i >= 2 is returned under key i and
\* position 1 is not returned.
C4_KeyHoldsOwnPosition ==
    Done => /\ \A j \in SphereIdx :
                   spheres[j][2] =
                       Around(<<tot_scores[spheres[j][1]], MaxSeq(tot_scores)>>)
            /\ \A i \in 1..Len(tot_scores) : (i \in SphereKeys) <=> (i >= 2)

\* C4 witness: a returned key whose own position and the position before it
\* have different totals.
C4_Witness ==
    /\ Done
    /\ \E j \in SphereIdx :
          tot_scores[spheres[j][1]] # tot_scores[spheres[j][1] - 1]

RowScores == [k \in RowIdx |-> per_res_import[k].Score]

SelfPairRows(r) ==
    {k \in RowIdx : per_res_import[k].Res1 = r /\ per_res_import[k].Res2 = r}

OneSideRows(r) ==
    {k \in RowIdx : (per_res_import[k].Res1 = r) # (per_res_import[k].Res2 = r)}

\* C9: a self-pair row (both tokens parse to r) adds its score twice to
\* r's total before normalisation; every other row of r adds it once.
C9_SelfPairTwice ==
    Done => \A r \in 1..max_res :
                tot_scores[r] = 2 * SumOver(SelfPairRows(r), RowScores)
                                  + SumOver(OneSideRows(r), RowScores)

\* C9 witness: a self-pair row with a positive score has been aggregated.
C9_Witness ==
    /\ Done
    /\ \E r \in 1..max_res : \E k \in SelfPairRows(r) :
          /\ per_res_import[k].Score > 0
          /\ OneSideRows(r) # {}

\* a feature name with its two residue tokens exchanged
SwapName(name) ==
    LET toks == SplitSpaces(name) IN
    toks[2] \o <<" ">> \o toks[1] \o <<" ">> \o toks[3]

SwapSome(fi, S) ==
    [k \in 1..Len(fi) |-> IF k \in S THEN <<SwapName(fi[k][1]), fi[k][2]>> ELSE fi[k]]

\* C10: exchanging the two residue tokens of any of the feature names
\* leaves the returned per-residue mapping unchanged.
C10_SwapInvariant ==
    Done => \A S \in SUBSET (1..Len(feat_importances)) :
                AggregateToResidues(SwapSome(feat_importances, S)) = spheres

\* C10 witness: a feature between two different residues with a non-zero
\* score has been aggregated into a non-empty mapping.
C10_Witness ==
    /\ Done
    /\ spheres # <<>>
    /\ \E k \in RowIdx : /\ per_res_import[k].Res1 # per_res_import[k].Res2
                          /\ per_res_import[k].Score > 0

----------------------------------------------------------------------------
(* UnsupervisedPostProcessor._get_pca_importances *)

RECURSIVE WhileLoop(_, _, _, _)
\* while combined_variance <= cutoff: combined_variance += variances[idx];
\* idx += 1.  idx counts the components taken so far, so the Python read
\* variances[idx] is position idx + 1 here; past the end it raises IndexError.
WhileLoop(vs, cut, combined_variance, idx) ==
    IF combined_variance <= cut
    THEN IF idx + 1 > Len(vs) THEN [raised |-> TRUE]
         ELSE WhileLoop(vs, cut, combined_variance + vs[idx + 1], idx + 1)
    ELSE [raised |-> FALSE, idx_position |-> idx]

RECURSIVE WhileLoopLt(_, _, _, _)
\* faulty variant: while combined_variance < cutoff
WhileLoopLt(vs, cut, combined_variance, idx) ==
    IF combined_variance < cut
    THEN IF idx + 1 > Len(vs) THEN [raised |-> TRUE]
         ELSE WhileLoopLt(vs, cut, combined_variance + vs[idx + 1], idx + 1)
    ELSE [raised |-> FALSE, idx_position |-> idx]

RECURSIVE WhileLoopClamped(_, _, _, _)
\* faulty variant: the loop also stops at the last component
WhileLoopClamped(vs, cut, combined_variance, idx) ==
    IF combined_variance <= cut /\ idx + 1 <= Len(vs)
    THEN WhileLoopClamped(vs, cut, combined_variance + vs[idx + 1], idx + 1)
    ELSE [raised |-> FALSE, idx_position |-> idx]

ComponentsNeededLt(vs, cut) == WhileLoopLt(vs, cut, vs[1], 1)

ComponentsNeededClamped(vs, cut) == WhileLoopClamped(vs, cut, vs[1], 1)

\* combined_variance = variances[0]; idx_position = 1; the while loop
ComponentsNeeded(vs, cut) == WhileLoop(vs, cut, vs[1], 1)

\* for idx, _ in enumerate(components_keep): column idx of the kept rows,
\* each entry times the ratio of its own row, absolute values summed
EigenvalueSums(components_keep, vs) ==
    [idx \in 1..Len(components_keep) |->
        SumSeq([j \in 1..Len(components_keep) |->
                   Abs(components_keep[j][idx] * vs[j])])]

\* faulty variant: every eigenvalue sum is divided by the sum of all of them
ScaleEigenvaluesBySum(eigenvalue_sums) ==
    [k \in 1..Len(eigenvalue_sums) |-> <<eigenvalue_sums[k], SumSeq(eigenvalue_sums)>>]

\* _scale_eigenvalues: every sum over the largest sum
ScaleEigenvalues(eigenvalue_sums) ==
    LET max_eigen_value == MaxSeq(eigenvalue_sums) IN
    [k \in 1..Len(eigenvalue_sums) |-> <<eigenvalue_sums[k], max_eigen_value>>]

\* faulty variant: one component more than needed is kept
ComponentsKeepOneMore(comps, n) == Prefix(comps, n + 1)

\* components[0:idx_position]
ComponentsKeep(comps, n) == Prefix(comps, n)

\* dict(zip(feat_names, eigenvalues_scaled)) for idx_position = n
PcaImportances(names, vs, comps, n) ==
    Zip(names, ScaleEigenvalues(EigenvalueSums(ComponentsKeep(comps, n), vs)))

----------------------------------------------------------------------------
(* Inputs of the PCA importance derivation *)

\* unsupervised_model.feat_names
PcaFeatNames == <<MkName(1, 2), MkName(1, 3), MkName(2, 3), MkName(3, 4)>>

\* loading vectors over PcaFeatNames a component may have
LoadingRows == {<<0, 0, 0, 0>>, <<1, -2, 0, 3>>, <<-1, 1, 2, 0>>, <<2, 0, -1, 1>>}

CompCounts == 1..MinOf(MaxComps, Len(PcaFeatNames))

\* explained_variance_ratio_: positive, descending, summing to at most 1
VarianceSeqs ==
    UNION { { v \in [1..n -> 1..VarTotal] :
                 /\ \A j \in 1..(n - 1) : v[j] >= v[j + 1]
                 /\ SumSeq(v) <= VarTotal } : n \in CompCounts }

Cutoffs == 0..VarTotal

----------------------------------------------------------------------------
(* The PCA importance derivation as a state machine *)

InitPca ==
    /\ pc = "pca_start"
    /\ variances \in VarianceSeqs
    /\ components \in [1..Len(variances) -> LoadingRows]
    /\ cutoff \in Cutoffs
    /\ idx_position = None
    /\ pca_importances = None
    /\ feat_importances = None
    /\ per_res_import = None
    /\ max_res = None
    /\ res_ids = None
    /\ tot_scores = None
    /\ spheres = None
    /\ NoStat
    /\ NoSup
    /\ NoPairs

\* _get_pca_importances(cutoff) returns
GetPcaImportancesOk ==
    /\ pc = "pca_start"
    /\ LET r == ComponentsNeeded(variances, cutoff) IN
          /\ ~r.raised
          /\ idx_position' = r.idx_position
          /\ pca_importances' =
                 PcaImportances(PcaFeatNames, variances, components, r.idx_position)
    /\ pc' = "pca_done"
    /\ UNCHANGED <<variances, components, cutoff>>
    /\ UNCHANGED <<aggVars, statVars, supVars>>
    /\ UNCHANGED pairVars

\* _get_pca_importances(cutoff) raises IndexError
GetPcaImportancesRaise ==
    /\ pc = "pca_start"
    /\ ComponentsNeeded(variances, cutoff).raised
    /\ pc' = "pca_error"
    /\ UNCHANGED pcaVars
    /\ UNCHANGED <<aggVars, statVars, supVars>>
    /\ UNCHANGED pairVars

NextPca == GetPcaImportancesOk \/ GetPcaImportancesRaise

SpecPca == InitPca /\ [][NextPca]_vars

----------------------------------------------------------------------------
(* Properties of the PCA importance derivation *)

PcaDone == pc = "pca_done"

\* explained variance of the first k components
CumVar(k) == SumSeq(SubSeq(variances, 1, k))

\* the components a cutoff asks for: the shortest prefix whose cumulative
\* ratio strictly exceeds it
Retained ==
    CHOOSE k \in 1..Len(variances) :
        /\ CumVar(k) > cutoff
        /\ \A h \in 1..(k - 1) : CumVar(h) <= cutoff

FeatIdx == 1..Len(PcaFeatNames)

\* sum over the retained components of |loading x ratio| for feature f
RawImportance(f) ==
    SumOver(1..Retained,
            [j \in 1..Retained |-> Abs(components[j][f] * variances[j])])

MaxRawImportance ==
    CHOOSE m \in {RawImportance(f) : f \in FeatIdx} :
        \A f \in FeatIdx : RawImportance(f) <= m

\* C5: the returned mapping has an entry for every feature name of the
\* model, whose value is the feature's summed |loading x ratio| over the
\* retained components divided by the largest such sum over all features.
C5_EveryFeatureScored ==
    PcaDone =>
        /\ Len(pca_importances) = Len(PcaFeatNames)
        /\ \A f \in 1..Len(pca_importances) :
              /\ pca_importances[f][1] = PcaFeatNames[f]
              /\ pca_importances[f][2][1] * MaxRawImportance
                     = RawImportance(f) * pca_importances[f][2][2]

\* the same models with other loadings in the components behind the first n
SameUpTo(n) ==
    {c \in [1..Len(variances) -> LoadingRows] :
        \A j \in 1..n : c[j] = components[j]}

\* C6: the components retained are the shortest prefix whose cumulative
\* ratio strictly exceeds the cutoff (a total equal to the cutoff goes on),
\* at least the first one, and the loadings of the components behind the
\* prefix do not influence the returned mapping.
C6_ShortestPrefix ==
    PcaDone =>
        /\ idx_position >= 1
        /\ CumVar(idx_position) > cutoff
        /\ \A h \in 1..(idx_position - 1) : CumVar(h) <= cutoff
        /\ \A c \in SameUpTo(idx_position) :
              PcaImportances(PcaFeatNames, variances, c, idx_position)
                  = pca_importances

\* C6 witness: a running total equal to the cutoff did not stop the
\* accumulation, and a component was left out.
C6_Witness ==
    /\ PcaDone
    /\ idx_position < Len(variances)
    /\ \E h \in 1..(idx_position - 1) : CumVar(h) = cutoff

\* C6 witness of the particular case: the first ratio alone exceeds the
\* cutoff and further components exist.
C6_WitnessFirstOnly ==
    /\ PcaDone
    /\ idx_position = 1
    /\ Len(variances) > 1
    /\ components[2] # components[1]

\* C7: when the cumulative ratio over all supplied components never
\* strictly exceeds the cutoff, the call fails and returns no importances.
C7_InsufficientComponents ==
    (pc # "pca_start" /\ CumVar(Len(variances)) <= cutoff)
        => (pc = "pca_error" /\ pca_importances = None)

\* C7 witness: several components of equal ratio fell short of the cutoff.
C7_Witness ==
    /\ pc = "pca_error"
    /\ Len(variances) >= 2
    /\ \A j \in 1..Len(variances) : variances[j] = variances[1]
    /\ CumVar(Len(variances)) < cutoff

\* C8: when some scored feature has a non-zero loading in a retained
\* component, every returned value lies in [0, 1] and the largest is 1.
C8_UnitRange ==
    (PcaDone /\ \E f \in 1..Len(pca_importances) :
                   \E j \in 1..idx_position : components[j][f] # 0)
        => /\ \A f \in 1..Len(pca_importances) :
                 /\ pca_importances[f][2][2] > 0
                 /\ 0 <= pca_importances[f][2][1]
                 /\ pca_importances[f][2][1] <= pca_importances[f][2][2]
           /\ \E f \in 1..Len(pca_importances) :
                 pca_importances[f][2][1] = pca_importances[f][2][2]

\* C8 witness: two features were scored, one at 1 and one strictly between
\* 0 and 1.
C8_Witness ==
    /\ PcaDone
    /\ \E f, g \in 1..Len(pca_importances) :
          /\ pca_importances[f][2][1] = pca_importances[f][2][2]
          /\ pca_importances[g][2][1] > 0
          /\ pca_importances[g][2][1] < pca_importances[g][2][2]

----------------------------------------------------------------------------
(* StatClassificationPostProcessor / StatRegressorPostProcessor:           *)
(* get_per_res_importance(stat_method)                                     *)

StatProcs == {"StatClassificationPostProcessor", "StatRegressorPostProcessor"}

\* the table the second `if` of a processor reads
SecondMethod(p) ==
    IF p = "StatClassificationPostProcessor" THEN "jensen_shannon"
    ELSE "linear_correlation"

\* faulty variant: the second branch is an else
BranchElse(p, stat_method) ==
    IF stat_method = "mutual_information" THEN "mutual_information"
    ELSE SecondMethod(p)

\* if stat_method == "mutual_information": ...; if stat_method == <second>:
\* ...; raise ValueError
Branch(p, stat_method) ==
    IF stat_method = "mutual_information" THEN "mutual_information"
    ELSE IF stat_method = SecondMethod(p) THEN stat_method
    ELSE "raise"

\* the file a branch writes: out_dir + "<...>_Scores_Per_Residue.csv"
OutFile(method) ==
    IF method = "mutual_information" THEN "Mutual_Information_Scores_Per_Residue.csv"
    ELSE IF method = "jensen_shannon"
         THEN "Jensen_Shannon_Distance_Scores_Per_Residue.csv"
    ELSE "Linear_Correlation_Scores_Per_Residue.csv"

\* faulty variant: the result is added to what the attribute holds
StoreAppended(old, new) == old \o new

\* self.per_residue_<...> = self._per_res_importance(per_res_import)
Store(old, new) == new

----------------------------------------------------------------------------
(* Inputs of the statistical processors *)

\* the features of the statistical model; both tables score the same features
StatNames == <<MkName(1, 2), MkName(2, 3)>>

\* a score table: not yet calculated ({}), or a score for every feature
StatTables ==
    {<<>>} \cup {[k \in 1..Len(StatNames) |-> <<StatNames[k], sc[k]>>] :
                    sc \in [1..Len(StatNames) -> ScoreValues]}

\* what a caller may pass as stat_method
StatMethodArgs == {"mutual_information", "jensen_shannon", "linear_correlation", "pca"}

----------------------------------------------------------------------------
(* The statistical processors as a state machine *)

InitStat ==
    /\ pc = "stat"
    /\ proc \in StatProcs
    /\ stat_model \in [{"mutual_information", SecondMethod(proc)} -> StatTables]
    /\ per_residue = [m \in {"mutual_information", SecondMethod(proc)} |-> <<>>]
    /\ files = {}
    /\ outcome = [call |-> None, raised |-> None]
    /\ ncalls = 0
    /\ feat_importances = None
    /\ per_res_import = None
    /\ max_res = None
    /\ res_ids = None
    /\ tot_scores = None
    /\ spheres = None
    /\ NoPca
    /\ NoSup
    /\ NoPairs

\* get_per_res_importance(stat_method) falls through to raise ValueError
StatRaiseValueError(stat_method) ==
    /\ ncalls < MaxCalls
    /\ Branch(proc, stat_method) = "raise"
    /\ outcome' = [call |-> stat_method, raised |-> "ValueError"]
    /\ ncalls' = ncalls + 1
    /\ UNCHANGED <<pc, proc, stat_model, per_residue, files>>
    /\ UNCHANGED <<aggVars, pcaVars, supVars>>
    /\ UNCHANGED pairVars

\* get_per_res_importance(stat_method): _dict_to_df_feat_importances raises
StatRaiseInParser(stat_method) ==
    /\ ncalls < MaxCalls
    /\ Branch(proc, stat_method) # "raise"
    /\ DictToDfFails(stat_model[Branch(proc, stat_method)])
    /\ outcome' = [call |-> stat_method, raised |-> "ParserError"]
    /\ ncalls' = ncalls + 1
    /\ UNCHANGED <<pc, proc, stat_model, per_residue, files>>
    /\ UNCHANGED <<aggVars, pcaVars, supVars>>
    /\ UNCHANGED pairVars

\* get_per_res_importance(stat_method) returns
StatReturn(stat_method) ==
    /\ ncalls < MaxCalls
    /\ Branch(proc, stat_method) # "raise"
    /\ LET method == Branch(proc, stat_method)
           fi == stat_model[method]
       IN /\ ~DictToDfFails(fi)
          /\ LET rows == DictToDf(fi)
                 m == MaxRes_(rows)
                 ids == ResIds(m)
                 ts == TotScores(rows, m)
                 out == Spheres(ids, ts, m)
             IN /\ feat_importances' = fi
                /\ per_res_import' = rows
                /\ max_res' = m
                /\ res_ids' = ids
                /\ tot_scores' = ts
                /\ spheres' = out
                /\ per_residue' =
                       [per_residue EXCEPT ![method] = Store(per_residue[method], out)]
                /\ files' = files \cup {OutFile(method)}
                /\ outcome' = [call |-> stat_method, raised |-> "no", returned |-> out]
    /\ ncalls' = ncalls + 1
    /\ UNCHANGED <<pc, proc, stat_model>>
    /\ UNCHANGED <<pcaVars, supVars>>
    /\ UNCHANGED pairVars

NextStat ==
    \E stat_method \in StatMethodArgs :
        \/ StatRaiseValueError(stat_method)
        \/ StatRaiseInParser(stat_method)
        \/ StatReturn(stat_method)

SpecStat == InitStat /\ [][NextStat]_vars

----------------------------------------------------------------------------
(* Properties of the statistical processors *)

\* the last call returned from the branch of `method`
Returned(method) ==
    /\ outcome.raised = "no"
    /\ outcome.call = method

FeatIdxOf(fi) == 1..Len(fi)

\* C11: on the regression linear-correlation path a residue's total is the
\* sum of |score| over the features it is in (once per side it is on), so
\* correlations of opposite sign do not cancel.
C11_AbsOnLinearCorrelation ==
    (proc = "StatRegressorPostProcessor" /\ Returned("linear_correlation")) =>
        LET lc == stat_model["linear_correlation"]
            absScore == [k \in FeatIdxOf(lc) |-> Abs(lc[k][2])]
        IN \A r \in 1..max_res :
              tot_scores[r] =
                  SumOver({k \in FeatIdxOf(lc) : per_res_import[k].Res1 = r}, absScore)
                  + SumOver({k \in FeatIdxOf(lc) : per_res_import[k].Res2 = r}, absScore)

\* C11 witness: a residue with a negative and a positive correlation got
\* the sum of their absolute values.
C11_Witness ==
    /\ proc = "StatRegressorPostProcessor"
    /\ Returned("linear_correlation")
    /\ \E j, k \in FeatIdxOf(stat_model["linear_correlation"]) :
          /\ stat_model["linear_correlation"][j][2] < 0
          /\ stat_model["linear_correlation"][k][2] > 0
          /\ \E r \in 1..max_res :
                tot_scores[r] = stat_model["linear_correlation"][k][2]
                                  - stat_model["linear_correlation"][j][2]

\* the last call aggregated a table other than the linear correlations
OtherPathReturned ==
    Returned("mutual_information") \/ Returned("jensen_shannon")

AllowedMethods == {"mutual_information", SecondMethod(proc)}

\* C19: a call with a stat_method outside the allowed names raises
\* ValueError, leaves every stored per-residue attribute as it was and writes
\* no file; a call with an allowed method changes at most the attribute of
\* that method.
C19_InvalidMethodRaises ==
    [][ncalls' = ncalls + 1 =>
          IF outcome'.call \notin AllowedMethods
          THEN /\ outcome'.raised = "ValueError"
               /\ per_residue' = per_residue
               /\ files' = files
          ELSE /\ outcome'.raised # "ValueError"
               /\ \A a \in AllowedMethods \ {outcome'.call} :
                     per_residue'[a] = per_residue[a]]_vars

\* C19 witness: after a call that stored a non-empty mapping and wrote its
\* file, a call with a method that is not allowed raised ValueError.
C19_Witness ==
    /\ outcome.raised = "ValueError"
    /\ outcome.call \notin AllowedMethods
    /\ files # {}
    /\ \E a \in AllowedMethods : per_residue[a] # <<>>

----------------------------------------------------------------------------
(* Order of the aggregator's output, and the empty input *)

\* C13: the output is in descending order of normalized score: of two
\* neighbouring entries the first has the larger score, or the same score
\* and the smaller residue id (stable sort); rounded values never increase.
\* When every score is nan (all totals 0) the ids stay in ascending order.
C13_DescendingStable ==
    Done =>
        \A j \in SphereIdx \ {Len(spheres)} :
            LET a == spheres[j][1]
                b == spheres[j + 1][1]
            IN /\ \/ tot_scores[a] > tot_scores[b]
                  \/ tot_scores[a] = tot_scores[b] /\ a < b
               /\ MaxSeq(tot_scores) # 0 => spheres[j][2] >= spheres[j + 1][2]

\* C13 witness: two residues with the same non-zero score are in the output.
C13_Witness ==
    /\ Done
    /\ \E j \in SphereIdx \ {Len(spheres)} :
          /\ tot_scores[spheres[j][1]] = tot_scores[spheres[j + 1][1]]
          /\ tot_scores[spheres[j][1]] > 0
          /\ spheres[j][1] < spheres[j + 1][1]

\* C14: aggregation of an empty feature dict ends in an error and returns no
\* per-residue mapping.
C14_EmptyInputFails ==
    (pc # "start" /\ feat_importances = <<>>) =>
        pc = "error" /\ per_res_import = None /\ spheres = None

\* C14 witness: the empty dict was passed and the call raised.
C14_Witness == pc = "error" /\ feat_importances = <<>>

----------------------------------------------------------------------------
(* Inputs of the parser: well-formed and malformed feature names *)

\* residue tokens: without digit, digits after/before/around letters
ParseToks == << <<"A">>, <<"A", "1", "2">>, <<"B", "7">>,
                <<"1", "A", "2">>, <<"7">> >>

\* what follows the second token: nothing, a space, an interaction type
ParseTrails == {<<>>, <<" ">>, <<" ", "H">>}

\* lead spaces, a token, and (when t2 > 0) a gap, a second token and a trail
ParseName(lead, t1, gap, t2, trail) ==
    Spaces(lead) \o ParseToks[t1]
        \o (IF t2 = 0 THEN <<>> ELSE Spaces(gap) \o ParseToks[t2] \o trail)

\* "A12 B7 H"
GoodName == ParseName(0, 2, 1, 3, <<" ", "H">>)

\* the dict of the two names (one entry when they are the same name), with
\* GoodName in front (1), behind (2) or absent (0)
ParseDict(n1, n2, good) ==
    LET own == IF n1 = n2 THEN << <<n1, 1>> >> ELSE << <<n1, 1>>, <<n2, 1>> >>
        has == \E k \in 1..Len(own) : own[k][1] = GoodName
    IN IF good = 0 \/ has THEN own
       ELSE IF good = 1 THEN << <<GoodName, 1>> >> \o own
       ELSE own \o << <<GoodName, 1>> >>

InitParse ==
    /\ pc = "start"
    /\ \E lead \in 0..1, t1 \in 1..Len(ParseToks), t2 \in 0..Len(ParseToks),
          trail \in ParseTrails, g1 \in 1..MaxGap, g2 \in 1..MaxGap,
          good \in 0..2 :
          feat_importances =
              ParseDict(ParseName(lead, t1, g1, t2, trail),
                        ParseName(lead, t1, g2, t2, trail), good)
    /\ per_res_import = None
    /\ max_res = None
    /\ res_ids = None
    /\ tot_scores = None
    /\ spheres = None
    /\ NoPca
    /\ NoStat
    /\ NoSup
    /\ NoPairs

NextParse == DictToDfOk \/ DictToDfRaise

SpecParse == InitParse /\ [][NextParse]_vars

----------------------------------------------------------------------------
(* Properties of the parser *)

\* the tokens of a name, by position: a token is a maximal stretch of
\* characters other than the space; a name that starts with a space has an
\* empty first token
NoSpaceIn(n, i, j) == \A x \in i..j : n[x] # " "

TokEnd(n, i) ==
    CHOOSE j \in i..Len(n) : NoSpaceIn(n, i, j) /\ (j = Len(n) \/ n[j + 1] = " ")

\* <<first, last>> of the first token, <<1, 0>> when it is empty
Tok1(n) == IF n = <<>> \/ n[1] = " " THEN <<1, 0>> ELSE <<1, TokEnd(n, 1)>>

\* where the second token starts: behind the run of spaces that ends the
\* first; 0 when nothing but spaces follows the first token
Tok2Start(n) ==
    LET e == Tok1(n)[2]
        after == {i \in (e + 1)..Len(n) : n[i] # " "}
    IN IF after = {} THEN 0 ELSE CHOOSE i \in after : \A x \in after : i <= x

Tok2(n) == IF Tok2Start(n) = 0 THEN <<1, 0>>
           ELSE <<Tok2Start(n), TokEnd(n, Tok2Start(n))>>

DigitsAt(n, t) == {i \in t[1]..t[2] : IsDigit(n[i])}

\* the integer written by the first run of digits in token t of n
FirstRunValue(n, t) ==
    LET d == CHOOSE i \in DigitsAt(n, t) : \A x \in DigitsAt(n, t) : i <= x
        e == CHOOSE j \in d..t[2] :
                 /\ \A x \in d..j : IsDigit(n[x])
                 /\ (j = t[2] \/ ~IsDigit(n[j + 1]))
    IN SumOver(d..e, [x \in d..e |-> DigitVal(n[x]) * Pow10(e - x)])

\* fewer than two tokens, or a residue token without a digit
Malformed(n) == DigitsAt(n, Tok1(n)) = {} \/ DigitsAt(n, Tok2(n)) = {}

RECURSIVE Squeeze(_)
\* the name with every run of spaces reduced to one space
Squeeze(n) ==
    IF Len(n) < 2 THEN n
    ELSE IF n[1] = " " /\ n[2] = " " THEN Squeeze(Tail(n))
    ELSE <<n[1]>> \o Squeeze(Tail(n))

\* C16: two names of a parsed dict that differ only in the width of their
\* runs of spaces have the same (Res1, Res2), and a name that reads
\* "A12 B7 H" with single spaces has the residue ids 12 and 7.
C16_SpaceWidthIrrelevant ==
    /\ (pc # "start" /\ feat_importances # <<>>
            /\ \A k \in FeatIdxOf(feat_importances) :
                   Squeeze(feat_importances[k][1]) = GoodName)
          => pc = "parsed"
    /\ pc = "parsed" =>
        \A j, k \in FeatIdxOf(feat_importances) :
            /\ Squeeze(feat_importances[j][1]) = Squeeze(feat_importances[k][1])
                  => /\ per_res_import[j].Res1 = per_res_import[k].Res1
                     /\ per_res_import[j].Res2 = per_res_import[k].Res2
            /\ Squeeze(feat_importances[j][1]) = GoodName
                  => per_res_import[j].Res1 = 12 /\ per_res_import[j].Res2 = 7

\* C16 witness: "A12 B7 H" and the same name with a wider gap were parsed.
C16_Witness ==
    /\ pc = "parsed"
    /\ \E j, k \in FeatIdxOf(feat_importances) :
          /\ feat_importances[j][1] = GoodName
          /\ feat_importances[k][1] # GoodName
          /\ Squeeze(feat_importances[k][1]) = GoodName

----------------------------------------------------------------------------
(* StatClassificationPostProcessor.get_probability_distributions           *)

MaxOf(a, b) == IF a >= b THEN a ELSE b

\* faulty variant: the last n keys
SliceLast(s, n) == SubSeq(s, Len(s) - MinOf(MaxOf(n, 0), Len(s)) + 1, Len(s))

\* list(...)[0:n]: a negative n counts from the end
SliceTo(s, n) == IF n >= 0 THEN Prefix(s, n) ELSE Prefix(s, MaxOf(Len(s) + n, 0))

\* the inner loop: feature -> that class's distribution, in the given order
OneFeatureProbDistribs(sm, class_name, features_to_output) ==
    [i \in 1..Len(features_to_output) |->
        <<features_to_output[i],
          sm.probability_distributions[class_name][features_to_output[i]]>>]

\* the outer loop: one entry per class, in the order of class_names
SelectedProbDistribs(sm, number_features) ==
    LET features_to_output == SliceTo(sm.js_distances, number_features)
    IN [c \in 1..Len(sm.class_names) |->
          <<sm.class_names[c],
            OneFeatureProbDistribs(sm, sm.class_names[c], features_to_output)>>]

\* stat_model.calc_js_distances(): fills js_distances with the ranking the
\* model computes from its data
CalcJsDistances(sm) == [sm EXCEPT !.js_distances = sm.calc_result]

\* lines 651-656: the model as it is after the count of ranked features
AfterCount(sm) == IF Len(sm.js_distances) = 0 THEN CalcJsDistances(sm) ELSE sm

----------------------------------------------------------------------------
(* Inputs of get_probability_distributions *)

ProbFeats == [i \in 1..MaxRanked |-> MkName(i, i + 1)]

ProbClasses == {<<"active", "inactive">>, <<"inactive", "active">>}

\* the keys of js_distances in ranking order: the first k features, permuted
Rankings ==
    UNION {{[i \in 1..k |-> ProbFeats[f[i]]] :
               f \in {g \in [1..k -> 1..k] : \A a, b \in 1..k : g[a] = g[b] => a = b}} :
           k \in 0..MaxRanked}

\* what a caller may pass as number_features
NumberArgs == (0 - MaxRanked)..(MaxRanked + 1)

StringArgs == {"all", "top"}

----------------------------------------------------------------------------
(* get_probability_distributions as a state machine *)

InitProb ==
    /\ pc = "prob"
    /\ proc = "StatClassificationPostProcessor"
    /\ \E r \in Rankings, known \in BOOLEAN, cn \in ProbClasses :
          stat_model =
              [js_distances |-> IF known THEN r ELSE <<>>,
               calc_result |-> r,
               class_names |-> cn,
               probability_distributions |->
                   [c \in {"active", "inactive"} |->
                       [f \in {ProbFeats[i] : i \in 1..MaxRanked} |-> <<"p", c, f>>]],
               x_values |-> "x_values"]
    /\ per_residue = None
    /\ files = None
    /\ outcome = [kind |-> None, str |-> None, n |-> 0, raised |-> None]
    /\ ncalls = 0
    /\ NoPca
    /\ NoSup
    /\ feat_importances = None
    /\ per_res_import = None
    /\ max_res = None
    /\ res_ids = None
    /\ tot_scores = None
    /\ spheres = None
    /\ NoPairs

\* number_features == "all": everything is returned
ProbReturnAllStr ==
    /\ pc = "prob"
    /\ ncalls < MaxCalls
    /\ LET sm == AfterCount(stat_model)
       IN /\ stat_model' = sm
          /\ outcome' = [kind |-> "str", str |-> "all", n |-> 0, raised |-> "no",
                         x |-> sm.x_values, all |-> TRUE]
    /\ ncalls' = ncalls + 1
    /\ UNCHANGED <<pc, proc, per_residue, files, aggVars, pcaVars, supVars>>
    /\ UNCHANGED pairVars

\* number_features >= tot_numb_features: everything is returned
ProbReturnAllInt(number_features) ==
    /\ pc = "prob"
    /\ ncalls < MaxCalls
    /\ LET sm == AfterCount(stat_model)
       IN /\ number_features >= Len(sm.js_distances)
          /\ stat_model' = sm
          /\ outcome' = [kind |-> "int", str |-> None, n |-> number_features,
                         raised |-> "no", x |-> sm.x_values, all |-> TRUE]
    /\ ncalls' = ncalls + 1
    /\ UNCHANGED <<pc, proc, per_residue, files, aggVars, pcaVars, supVars>>
    /\ UNCHANGED pairVars

\* number_features < tot_numb_features: the selection is returned
ProbReturnSelected(number_features) ==
    /\ pc = "prob"
    /\ ncalls < MaxCalls
    /\ LET sm == AfterCount(stat_model)
       IN /\ number_features < Len(sm.js_distances)
          /\ stat_model' = sm
          /\ outcome' = [kind |-> "int", str |-> None, n |-> number_features,
                         raised |-> "no", x |-> sm.x_values, all |-> FALSE,
                         selected |-> SelectedProbDistribs(sm, number_features)]
    /\ ncalls' = ncalls + 1
    /\ UNCHANGED <<pc, proc, per_residue, files, aggVars, pcaVars, supVars>>
    /\ UNCHANGED pairVars

\* a string other than "all": the comparison with the count raises TypeError
ProbRaiseTypeError(number_features) ==
    /\ pc = "prob"
    /\ ncalls < MaxCalls
    /\ number_features # "all"
    /\ stat_model' = AfterCount(stat_model)
    /\ outcome' = [kind |-> "str", str |-> number_features, n |-> 0,
                   raised |-> "TypeError"]
    /\ ncalls' = ncalls + 1
    /\ UNCHANGED <<pc, proc, per_residue, files, aggVars, pcaVars, supVars>>
    /\ UNCHANGED pairVars

\* the raise ValueError of lines 678-680 follows two tests of which one is
\* true for every integer, so no call reaches it
NextProb ==
    \/ ProbReturnAllStr
    \/ \E number_features \in NumberArgs :
          \/ ProbReturnAllInt(number_features)
          \/ ProbReturnSelected(number_features)
    \/ \E number_features \in StringArgs : ProbRaiseTypeError(number_features)

SpecProb == InitProb /\ [][NextProb]_vars

----------------------------------------------------------------------------
(* Properties of get_probability_distributions *)

\* the last call passed an integer and returned
ReturnedForInt == outcome.kind = "int" /\ outcome.raised = "no"

\* C17: a call with 0 <= n < number of ranked features returns x_values
\* unchanged and, for every class in the order of class_names, exactly the
\* first n features of the js_distances ranking, each with that class's
\* stored distribution.
C17_TopFeaturesPerClass ==
    (ReturnedForInt /\ outcome.n >= 0 /\ outcome.n < Len(stat_model.js_distances)) =>
        /\ outcome.x = stat_model.x_values
        /\ ~outcome.all
        /\ Len(outcome.selected) = Len(stat_model.class_names)
        /\ \A c \in 1..Len(stat_model.class_names) :
              /\ outcome.selected[c][1] = stat_model.class_names[c]
              /\ Len(outcome.selected[c][2]) = outcome.n
              /\ \A i \in 1..outcome.n :
                    /\ outcome.selected[c][2][i][1] = stat_model.js_distances[i]
                    /\ outcome.selected[c][2][i][2] =
                           stat_model.probability_distributions
                               [stat_model.class_names[c]][stat_model.js_distances[i]]

\* C17 witness: two of three ranked features were returned, from a ranking
\* that is not the order of the features, with "inactive" the first class.
C17_Witness ==
    /\ ReturnedForInt
    /\ outcome.n = 2
    /\ Len(stat_model.js_distances) = 3
    /\ stat_model.js_distances[1] # ProbFeats[1]
    /\ stat_model.class_names[1] = "inactive"

\* C18: a call with a number_features that is neither "all" nor a feature
\* count (a negative integer, another string) ends in an error and returns
\* nothing.
C18_InvalidSelectionRaises ==
    ((outcome.kind = "int" /\ outcome.n < 0)
        \/ (outcome.kind = "str" /\ outcome.str # "all"))
    => outcome.raised # "no"

----------------------------------------------------------------------------
(* SupervisedPostProcessor *)

\* np.around(model.feature_importances_, 8): raw importances are in units of
\* 10^-9, the rounded ones in units of 10^-8, half to even
AroundImportance(x) ==
    LET f == x \div 10
        r == x % 10
    IN IF r > 5 THEN f + 1
       ELSE IF r < 5 THEN f
       ELSE IF f % 2 = 0 THEN f ELSE f + 1

\* dict(sorted(zip(feat_names, raw_importances), key=x[1], reverse=True))
SortFeatImportances(names, raw) ==
    LET n == MinOf(Len(names), Len(raw))
        srt == SortedDesc([k \in 1..n |-> <<names[k], <<AroundImportance(raw[k]), 1>>>>])
    IN [k \in 1..n |-> <<srt[k][1], srt[k][2][1]>>]

RECURSIVE DictUpdate(_, _, _)
\* d.update({key: value}): an old key keeps its place, a new one goes last
DictUpdate(d, key, value) ==
    IF d = <<>> THEN << <<key, value>> >>
    ELSE IF Head(d)[1] = key THEN << <<key, value>> >> \o Tail(d)
    ELSE <<Head(d)>> \o DictUpdate(Tail(d), key, value)

RECURSIVE UpdateAll(_, _)
UpdateAll(d, entries) ==
    IF entries = <<>> THEN d
    ELSE UpdateAll(DictUpdate(d, Head(entries)[1], Head(entries)[2]), Tail(entries))

\* faulty variant: the results are added to what the attribute holds
AccumulateOnto(old, entries) == old \o entries

\* self.all_... = {} and then one update per model
ResetThenUpdate(old, entries) == UpdateAll(<<>>, entries)

\* the loop of get_feature_importance over best_models
FeatureImportances(names, bm) ==
    [k \in 1..Len(bm) |-> <<bm[k][1], SortFeatImportances(names, bm[k][2])>>]

\* the loop of get_per_res_importance over all_feature_importances
PerResidueScores(afi) ==
    [k \in 1..Len(afi) |-> <<afi[k][1], AggregateToResidues(afi[k][2])>>]

\* the old value of a key, None when the dict does not have it
DictGet(d, key) ==
    IF \E k \in 1..Len(d) : d[k][1] = key
    THEN d[CHOOSE k \in 1..Len(d) : d[k][1] = key][2]
    ELSE None

\* best_models for the listed model names, in the order listed
BestModels(mm, models_to_use) ==
    [k \in 1..Len(models_to_use) |->
        <<models_to_use[k], DictGet(mm, models_to_use[k])>>]

DictKeys(d) == [k \in 1..Len(d) |-> d[k][1]]

----------------------------------------------------------------------------
(* Inputs of the supervised processor *)

\* supervised_model.feat_names
SupFeatNames == <<MkName(1, 2), MkName(2, 3), MkName(1, 3)>>

\* feature_importances_ of an estimator, in units of 10^-9
RawImportances == {<<14, 25, 6>>, <<35, 4, 15>>}

ModelNames == <<"RandomForest", "XGBoost">>

\* lists a caller may pass as models_to_use
ModelLists == {<<"RandomForest">>, <<"XGBoost">>, <<"XGBoost", "RandomForest">>}

----------------------------------------------------------------------------
(* The supervised processor as a state machine *)

InitSup ==
    /\ pc = "sup"
    /\ proc = "SupervisedPostProcessor"
    /\ \E imp \in [1..Len(ModelNames) -> RawImportances] :
          ml_models = [k \in 1..Len(ModelNames) |-> <<ModelNames[k], imp[k]>>]
    /\ best_models = <<>>
    /\ all_feature_importances = <<>>
    /\ all_per_residue_scores = <<>>
    /\ files = {}
    /\ outcome = [call |-> None, prev |-> None, raised |-> None]
    /\ ncalls = 0
    /\ stat_model = None
    /\ per_residue = None
    /\ NoPca
    /\ feat_importances = None
    /\ per_res_import = None
    /\ max_res = None
    /\ res_ids = None
    /\ tot_scores = None
    /\ spheres = None
    /\ NoPairs

\* load_models_from_instance(supervised_model, "all")
LoadModelsAll ==
    /\ ncalls < MaxSupCalls
    /\ best_models' = BestModels(ml_models, DictKeys(ml_models))
    /\ outcome' = [call |-> "load_models_from_instance", prev |-> outcome.call,
                   raised |-> "no"]
    /\ ncalls' = ncalls + 1
    /\ UNCHANGED <<pc, proc, ml_models, all_feature_importances,
                   all_per_residue_scores, files, stat_model, per_residue>>
    /\ UNCHANGED <<aggVars, pcaVars>>
    /\ UNCHANGED pairVars

\* load_models_from_instance(supervised_model, [names])
LoadModelsList(models_to_use) ==
    /\ ncalls < MaxSupCalls
    /\ best_models' = BestModels(ml_models, models_to_use)
    /\ outcome' = [call |-> "load_models_from_instance", prev |-> outcome.call,
                   raised |-> "no"]
    /\ ncalls' = ncalls + 1
    /\ UNCHANGED <<pc, proc, ml_models, all_feature_importances,
                   all_per_residue_scores, files, stat_model, per_residue>>
    /\ UNCHANGED <<aggVars, pcaVars>>
    /\ UNCHANGED pairVars

\* load_models_from_instance(supervised_model, "best"): best_models is
\* emptied before the ValueError is raised
LoadModelsRaise ==
    /\ ncalls < MaxSupCalls
    /\ best_models' = <<>>
    /\ outcome' = [call |-> "load_models_from_instance", prev |-> outcome.call,
                   raised |-> "ValueError"]
    /\ ncalls' = ncalls + 1
    /\ UNCHANGED <<pc, proc, ml_models, all_feature_importances,
                   all_per_residue_scores, files, stat_model, per_residue>>
    /\ UNCHANGED <<aggVars, pcaVars>>
    /\ UNCHANGED pairVars

\* get_feature_importance()
GetFeatureImportance ==
    /\ ncalls < MaxSupCalls
    /\ LET afi == FeatureImportances(SupFeatNames, best_models)
       IN /\ all_feature_importances' = ResetThenUpdate(all_feature_importances, afi)
          /\ files' = files \cup
                 {<<afi[k][1], "_Feature_Importances.csv">> : k \in 1..Len(afi)}
    /\ outcome' = [call |-> "get_feature_importance", prev |-> outcome.call,
                   raised |-> "no"]
    /\ ncalls' = ncalls + 1
    /\ UNCHANGED <<pc, proc, ml_models, best_models, all_per_residue_scores,
                   stat_model, per_residue>>
    /\ UNCHANGED <<aggVars, pcaVars>>
    /\ UNCHANGED pairVars

\* get_per_res_importance(); the feature names of the instance are well
\* formed, so the parser does not raise
GetPerResImportance ==
    /\ ncalls < MaxSupCalls
    /\ LET ran == Len(all_feature_importances) = 0
           new == FeatureImportances(SupFeatNames, best_models)
           afi == IF ran THEN ResetThenUpdate(all_feature_importances, new)
                  ELSE all_feature_importances
           scores == PerResidueScores(afi)
       IN /\ all_feature_importances' = afi
          /\ all_per_residue_scores' = ResetThenUpdate(all_per_residue_scores, scores)
          /\ files' = files
                 \cup (IF ran THEN {<<new[k][1], "_Feature_Importances.csv">> :
                                       k \in 1..Len(new)}
                       ELSE {})
                 \cup {<<scores[k][1], "_Per_Residue_Importances.csv">> :
                          k \in 1..Len(scores)}
    /\ outcome' = [call |-> "get_per_res_importance", prev |-> outcome.call,
                   raised |-> "no"]
    /\ ncalls' = ncalls + 1
    /\ UNCHANGED <<pc, proc, ml_models, best_models, stat_model, per_residue>>
    /\ UNCHANGED <<aggVars, pcaVars>>
    /\ UNCHANGED pairVars

NextSup ==
    \/ LoadModelsAll
    \/ \E models_to_use \in ModelLists : LoadModelsList(models_to_use)
    \/ LoadModelsRaise
    \/ GetFeatureImportance
    \/ GetPerResImportance

SpecSup == InitSup /\ [][NextSup]_vars

----------------------------------------------------------------------------
(* Repeated calls *)

----------------------------------------------------------------------------
(* The value stored for a residue *)

\* sum of |score| over the features with residue r first, plus the same
\* over the features with residue r second
OwnTotal(r) ==
    LET absScore == [k \in FeatIdxOf(feat_importances) |-> Abs(feat_importances[k][2])]
    IN SumOver({k \in RowIdx : per_res_import[k].Res1 = r}, absScore)
         + SumOver({k \in RowIdx : per_res_import[k].Res2 = r}, absScore)

\* the largest own total among the scanned residues 1..max_res
MaxOwnTotal ==
    CHOOSE t \in {OwnTotal(r) : r \in 1..max_res} :
        \A r \in 1..max_res : OwnTotal(r) <= t

\* C21: the value under every output key k is residue k's own total divided
\* by the largest total among all scanned residues 1..M, residue 1 included
\* although it has no key, rounded to 5 decimals.
C21_OwnTotalOverScannedMax ==
    Done => \A j \in SphereIdx :
                spheres[j][2] = Around(<<OwnTotal(spheres[j][1]), MaxOwnTotal>>)

\* C21 witness: residue 1 alone holds the largest total and a returned
\* residue has a value strictly between 0 and 1.
C21_Witness ==
    /\ Done
    /\ \A r \in 2..max_res : OwnTotal(r) < OwnTotal(1)
    /\ \E j \in SphereIdx : spheres[j][2] > 0 /\ spheres[j][2] < Scale

----------------------------------------------------------------------------
(* UnsupervisedPostProcessor *)

\* variance_explained_cutoff=0.95 in units of 1 / VarTotal: the combined
\* variance is a whole number of units, so it is <= 0.95 * VarTotal exactly
\* when it is <= the whole part of 0.95 * VarTotal
DefaultCutoff == (95 * VarTotal) \div 100

\* the PCA importances as the feature dict the parser gets: they share their
\* denominator (the largest eigenvalue sum), which cancels when the
\* aggregator divides by its own maximum, so the numerators are the scores;
\* with a denominator of 0 every score is nan, and so is every output value,
\* as with scores that are all 0
PcaFeatDict(pca) == [k \in 1..Len(pca) |-> <<pca[k][1], pca[k][2][1]>>]

\* self.<attr>: AttributeError when __post_init__ did not set it
Attribute(attr) == IF attr = None THEN [set |-> FALSE, value |-> <<>>]
                   ELSE [set |-> TRUE, value |-> attr]

\* get_feature_importance(cut): the dict it leaves in all_feature_importances
\* ({} when _get_pca_importances raised) and whether it raised
UnsupFeatureImportance(vs, comps, cut) ==
    LET r == ComponentsNeeded(vs, cut)
    IN IF r.raised THEN [raised |-> TRUE, afi |-> <<>>, idx_position |-> None,
                         pca |-> None]
       ELSE LET pca == PcaImportances(PcaFeatNames, vs, comps, r.idx_position)
            IN [raised |-> FALSE, afi |-> << <<"PCA", pca>> >>,
                idx_position |-> r.idx_position, pca |-> pca]

\* the loop of get_per_res_importance over all_feature_importances
UnsupPerResidueScores(afi) ==
    [k \in 1..Len(afi) |-> <<afi[k][1], AggregateToResidues(PcaFeatDict(afi[k][2]))>>]

----------------------------------------------------------------------------
(* Inputs of the unsupervised processor *)

\* unsupervised_model.ml_models["PCA"]: explained_variance_ratio_ and
\* components_ (loadings over PcaFeatNames)
UnsupModels ==
    {[variances |-> <<2, 1, 1>>,
      components |-> << <<1, -2, 0, 3>>, <<-1, 1, 2, 0>>, <<2, 0, -1, 1>> >>],
     [variances |-> <<2, 1>>,
      components |-> << <<1, -2, 0, 3>>, <<2, 0, -1, 1>> >>],
     [variances |-> <<3, 1>>,
      components |-> << <<0, 0, 0, 0>>, <<0, 0, 0, 0>> >>]}

----------------------------------------------------------------------------
(* The unsupervised processor as a state machine *)

InitUnsup ==
    /\ pc = "unsup"
    /\ proc = "UnsupervisedPostProcessor"
    /\ \E m \in UnsupModels : variances = m.variances /\ components = m.components
    /\ cutoff = None
    /\ idx_position = None
    /\ pca_importances = None
    /\ all_feature_importances = None
    /\ all_per_residue_scores = <<>>
    /\ files = {}
    /\ outcome = [call |-> None, prev |-> None, raised |-> None]
    /\ ncalls = 0
    /\ ml_models = None
    /\ best_models = None
    /\ stat_model = None
    /\ per_residue = None
    /\ feat_importances = None
    /\ per_res_import = None
    /\ max_res = None
    /\ res_ids = None
    /\ tot_scores = None
    /\ spheres = None
    /\ NoPairs

\* get_feature_importance(variance_explained_cutoff) returns
UnsupGetFeatureImportance(variance_explained_cutoff) ==
    /\ ncalls < MaxUnsupCalls
    /\ LET fi == UnsupFeatureImportance(variances, components, variance_explained_cutoff)
       IN /\ ~fi.raised
          /\ all_feature_importances' = fi.afi
          /\ idx_position' = fi.idx_position
          /\ pca_importances' = fi.pca
          /\ files' = files \cup {<<"PCA", "_Feature_Importances.csv">>}
    /\ cutoff' = variance_explained_cutoff
    /\ outcome' = [call |-> "get_feature_importance", prev |-> outcome.call,
                   raised |-> "no"]
    /\ ncalls' = ncalls + 1
    /\ UNCHANGED <<pc, proc, variances, components, all_per_residue_scores,
                   ml_models, best_models, stat_model, per_residue>>
    /\ UNCHANGED aggVars
    /\ UNCHANGED pairVars

\* get_feature_importance(variance_explained_cutoff): the while loop runs
\* past the last component; all_feature_importances was emptied before
UnsupGetFeatureImportanceRaise(variance_explained_cutoff) ==
    /\ ncalls < MaxUnsupCalls
    /\ UnsupFeatureImportance(variances, components, variance_explained_cutoff).raised
    /\ all_feature_importances' = <<>>
    /\ cutoff' = variance_explained_cutoff
    /\ outcome' = [call |-> "get_feature_importance", prev |-> outcome.call,
                   raised |-> "IndexError"]
    /\ ncalls' = ncalls + 1
    /\ UNCHANGED <<pc, proc, variances, components, idx_position, pca_importances,
                   all_per_residue_scores, files,
                   ml_models, best_models, stat_model, per_residue>>
    /\ UNCHANGED aggVars
    /\ UNCHANGED pairVars

\* get_per_res_importance(): len(self.all_feature_importances) raises
\* AttributeError
UnsupGetPerResImportanceNoAttribute ==
    /\ ncalls < MaxUnsupCalls
    /\ ~Attribute(all_feature_importances).set
    /\ outcome' = [call |-> "get_per_res_importance", prev |-> outcome.call,
                   raised |-> "AttributeError"]
    /\ ncalls' = ncalls + 1
    /\ UNCHANGED <<pc, proc, all_feature_importances, all_per_residue_scores, files,
                   ml_models, best_models, stat_model, per_residue>>
    /\ UNCHANGED <<aggVars, pcaVars>>
    /\ UNCHANGED pairVars

\* get_per_res_importance(): the get_feature_importance() it calls raises
UnsupGetPerResImportanceRaise ==
    /\ ncalls < MaxUnsupCalls
    /\ Attribute(all_feature_importances).set
    /\ Len(Attribute(all_feature_importances).value) = 0
    /\ UnsupFeatureImportance(variances, components, DefaultCutoff).raised
    /\ all_feature_importances' = <<>>
    /\ cutoff' = DefaultCutoff
    /\ outcome' = [call |-> "get_per_res_importance", prev |-> outcome.call,
                   raised |-> "IndexError"]
    /\ ncalls' = ncalls + 1
    /\ UNCHANGED <<pc, proc, variances, components, idx_position, pca_importances,
                   all_per_residue_scores, files,
                   ml_models, best_models, stat_model, per_residue>>
    /\ UNCHANGED aggVars
    /\ UNCHANGED pairVars

\* get_per_res_importance() returns
UnsupGetPerResImportance ==
    /\ ncalls < MaxUnsupCalls
    /\ Attribute(all_feature_importances).set
    /\ LET old == Attribute(all_feature_importances).value
           ran == Len(old) = 0
           fi == UnsupFeatureImportance(variances, components, DefaultCutoff)
       IN /\ ran => ~fi.raised
          /\ LET afi == IF ran THEN fi.afi ELSE old
                 scores == UnsupPerResidueScores(afi)
             IN /\ all_feature_importances' = afi
                /\ all_per_residue_scores' =
                       ResetThenUpdate(all_per_residue_scores, scores)
                /\ files' = files
                       \cup (IF ran THEN {<<"PCA", "_Feature_Importances.csv">>} ELSE {})
                       \cup {<<scores[k][1], "_Per_Residue_Importances.csv">> :
                                k \in 1..Len(scores)}
          /\ cutoff' = IF ran THEN DefaultCutoff ELSE cutoff
          /\ idx_position' = IF ran THEN fi.idx_position ELSE idx_position
          /\ pca_importances' = IF ran THEN fi.pca ELSE pca_importances
    /\ outcome' = [call |-> "get_per_res_importance", prev |-> outcome.call,
                   raised |-> "no"]
    /\ ncalls' = ncalls + 1
    /\ UNCHANGED <<pc, proc, variances, components,
                   ml_models, best_models, stat_model, per_residue>>
    /\ UNCHANGED aggVars
    /\ UNCHANGED pairVars

NextUnsup ==
    \/ \E variance_explained_cutoff \in Cutoffs :
          \/ UnsupGetFeatureImportance(variance_explained_cutoff)
          \/ UnsupGetFeatureImportanceRaise(variance_explained_cutoff)
    \/ UnsupGetPerResImportanceNoAttribute
    \/ UnsupGetPerResImportanceRaise
    \/ UnsupGetPerResImportance

SpecUnsup == InitUnsup /\ [][NextUnsup]_vars

----------------------------------------------------------------------------
(* Order of the calls *)

\* C22: get_per_res_importance called on a processor on which
\* get_feature_importance has not run (here: as the first call on a freshly
\* constructed UnsupervisedPostProcessor) runs it first and completes with
\* all_feature_importances and all_per_residue_scores populated.
C22_EnsuresFeatureImportance ==
    (outcome.call = "get_per_res_importance" /\ ncalls = 1) =>
        /\ outcome.raised = "no"
        /\ all_feature_importances # None
        /\ all_per_residue_scores # <<>>

----------------------------------------------------------------------------
(* Per-residue scores and the loaded models *)

KeySet(d) == {d[k][1] : k \in 1..Len(d)}

\* C23: after successful load_models_from_instance, get_feature_importance
\* and get_per_res_importance calls on a SupervisedPostProcessor, a
\* completed get_per_res_importance leaves all_per_residue_scores with
\* exactly the model names held in best_models.
C23_ScoresOfCurrentModels ==
    (pc = "sup" /\ outcome.call = "get_per_res_importance" /\ outcome.raised = "no"
        /\ best_models # <<>>)
    => KeySet(all_per_residue_scores) = KeySet(best_models)

----------------------------------------------------------------------------
(* prep_res_res_connections (network analysis tutorial) *)

\* str(res1) + " " + str(res2)
PairKey(res1, res2) == IntToChars(res1) \o <<" ">> \o IntToChars(res2)

HasKey(d, key) == \E k \in 1..Len(d) : d[k][1] = key

\* the body of the inner loop for one step of a path
CountStep(d, res1, res2) ==
    LET pair_v1 == PairKey(res1, res2)
        pair_v2 == PairKey(res2, res1)
    IN IF HasKey(d, pair_v1) THEN DictUpdate(d, pair_v1, DictGet(d, pair_v1) + 1)
       ELSE IF HasKey(d, pair_v2)
            \* try: interacting_pairs[pair_v1] += 1; except KeyError: ... = 1
            THEN IF HasKey(d, pair_v1)
                 THEN DictUpdate(d, pair_v1, DictGet(d, pair_v1) + 1)
                 ELSE DictUpdate(d, pair_v1, 1)
       ELSE DictUpdate(d, pair_v1, 1)

RECURSIVE CountPath(_, _)
\* for res1, res2 in zip(path, path[1:])
CountPath(d, path) ==
    IF Len(path) < 2 THEN d
    ELSE CountPath(CountStep(d, path[1], path[2]), Tail(path))

RECURSIVE CountPaths(_, _)
\* for path in all_paths
CountPaths(d, paths) ==
    IF paths = <<>> THEN d ELSE CountPaths(CountPath(d, Head(paths)), Tail(paths))

\* round(num / den, PairDecimals) in units of 10^-PairDecimals, half to even
RoundPair(num, den) ==
    LET n == num * Pow10(PairDecimals)
        f == n \div den
        r == n % den
    IN IF 2 * r > den THEN f + 1
       ELSE IF 2 * r < den THEN f
       ELSE IF f % 2 = 0 THEN f ELSE f + 1

\* scale items in dict so max value = 0.5
ScalePairs(d) ==
    LET max_interactions == MaxSeq([k \in 1..Len(d) |-> d[k][2]])
    IN [k \in 1..Len(d) |-> <<d[k][1], RoundPair(d[k][2], max_interactions * 2)>>]

----------------------------------------------------------------------------
(* Inputs of prep_res_res_connections *)

\* residues a path may visit
PathResidues == 1..3

PathsOfLen(n) == [1..n -> PathResidues]

AllPathLists ==
    UNION {[1..k -> UNION {PathsOfLen(n) : n \in 0..MaxPathLen}] : k \in 0..MaxPaths}

----------------------------------------------------------------------------
(* prep_res_res_connections as a state machine *)

InitPairs ==
    /\ pc = "pairs_start"
    /\ all_paths \in AllPathLists
    /\ interacting_pairs = None
    /\ feat_importances = None
    /\ per_res_import = None
    /\ max_res = None
    /\ res_ids = None
    /\ tot_scores = None
    /\ spheres = None
    /\ NoPca
    /\ NoStat
    /\ NoSup

\* prep_res_res_connections(all_paths) returns
PrepResResConnections ==
    /\ pc = "pairs_start"
    /\ CountPaths(<<>>, all_paths) # <<>>
    /\ interacting_pairs' = ScalePairs(CountPaths(<<>>, all_paths))
    /\ pc' = "pairs_done"
    /\ UNCHANGED all_paths
    /\ UNCHANGED <<aggVars, pcaVars, statVars, supVars>>

\* prep_res_res_connections(all_paths): no path has a step, max() of an
\* empty sequence raises ValueError
PrepResResConnectionsRaise ==
    /\ pc = "pairs_start"
    /\ CountPaths(<<>>, all_paths) = <<>>
    /\ pc' = "pairs_error"
    /\ UNCHANGED pairVars
    /\ UNCHANGED <<aggVars, pcaVars, statVars, supVars>>

NextPairs == PrepResResConnections \/ PrepResResConnectionsRaise

SpecPairs == InitPairs /\ [][NextPairs]_vars

----------------------------------------------------------------------------
(* Residue orderings *)

\* the steps of all paths, as <<path number, step number>>
PathSteps ==
    {<<p, i>> \in (1..Len(all_paths)) \X (1..MaxPathLen) : i < Len(all_paths[p])}

\* how often residues a and b follow each other in a path, in either order
Traversals(a, b) ==
    Cardinality({st \in PathSteps :
                    LET x == all_paths[st[1]][st[2]]
                        y == all_paths[st[1]][st[2] + 1]
                    IN (x = a /\ y = b) \/ (x = b /\ y = a)})

MaxTraversals ==
    CHOOSE t \in {Traversals(a, b) : a, b \in PathResidues} :
        \A a, b \in PathResidues : Traversals(a, b) <= t

\* C24: a connection traversed as (a, b) and as (b, a) is one residue-residue
\* pair: no two keys of the result are each other's mirror image, and the
\* frequency under a key counts the traversals in both orders.
C24_BothOrderingsOneKey ==
    pc = "pairs_done" =>
        \A a, b \in PathResidues :
            /\ a # b => ~(HasKey(interacting_pairs, PairKey(a, b))
                            /\ HasKey(interacting_pairs, PairKey(b, a)))
            /\ HasKey(interacting_pairs, PairKey(a, b)) =>
                  DictGet(interacting_pairs, PairKey(a, b))
                      = RoundPair(Traversals(a, b), 2 * MaxTraversals)

====
